---- MODULE Spec2Model ----
(***************************************************************************)
(* A model of workspace.py: the Files scanner (ignore rules, structure,    *)
(* size statistics), the GitRepository metadata object and its mutating    *)
(* operations, and Workspace discovery.                                     *)
(*                                                                         *)
(* Strings of the program are sequences of one-character strings, so that  *)
(* startswith, the regular expressions and the glob conversion are         *)
(* computed character by character as the code computes them.              *)
(***************************************************************************)
EXTENDS Integers, Sequences, FiniteSets, TLC

VARIABLES
    fs,               \* the project directory on disk: .gitignore and tree
    ignored_patterns, \* Files.ignored_patterns: what is left of the generator
    files,            \* Files._files: recorded paths, in insertion order
    structure,        \* Files.structure
    sloc,             \* Files.sloc
    largest_file,     \* Files.largest_file (None is the empty path)
    files_raised,     \* exception leaving the last Files.refresh(), or "none"
    files_calls,      \* 1 once refresh() was called on the current tree, else 0
    git,              \* the repository outside the program: remote URL, divergence
    repo,             \* the GitRepository object's fields
    call,             \* the last GitRepository call: name, argument, commands, exception
    ws_disk,          \* the root directories given to Workspace and their children
    dirs,             \* Workspace.dirs: lower-cased name -> project path
    ws_state          \* "unbuilt", "built", or "raised" (the constructor threw)

files_vars == <<fs, ignored_patterns, files, structure, sloc, largest_file,
                files_raised, files_calls>>

repo_vars == <<git, repo, call>>

ws_vars == <<ws_disk, dirs, ws_state>>

vars == <<fs, ignored_patterns, files, structure, sloc, largest_file,
          files_raised, files_calls, git, repo, call, ws_disk, dirs, ws_state>>

(***************************************************************************)
(* Bounds                                                                  *)
(***************************************************************************)
MaxLines == 2      \* line counts of a file range over 0..MaxLines
MaxEntries == 2    \* entries listed directly under the project root
MaxDiv == 1        \* commits ahead of, or behind, the tracked branch
MaxCommits == 2    \* total commits of the repository
MaxAge == 1        \* time() minus the newest commit's timestamp

(***************************************************************************)
(* Generic helpers                                                         *)
(***************************************************************************)
None == << >>

StartsWith(s, p) == Len(s) >= Len(p) /\ SubSeq(s, 1, Len(p)) = p

Max(S) == CHOOSE x \in S : \A y \in S : y <= x

Min(S) == CHOOSE x \in S : \A y \in S : x <= y

RECURSIVE Replace(_, _, _)
\* str.replace(ch, rep) for a one-character ch
Replace(s, ch, rep) ==
    IF s = << >> THEN << >>
    ELSE (IF Head(s) = ch THEN rep ELSE <<Head(s)>>) \o Replace(Tail(s), ch, rep)

RECURSIVE SeqSum(_)
SeqSum(s) == IF s = << >> THEN 0 ELSE Head(s) + SeqSum(Tail(s))

(***************************************************************************)
(* Names used in the modelled trees                                        *)
(***************************************************************************)
N_root == <<"p">>
N_home == <<"w">>
N_a_py == <<"a", ".", "p", "y">>
N_b_go == <<"b", ".", "g", "o">>
N_c_py == <<"c", ".", "p", "y">>
N_n_txt == <<"n", ".", "t", "x", "t">>
N_h_py == <<".", "h", ".", "p", "y">>
N_t_py == <<"_", "_", "t", ".", "p", "y">>
N_sub == <<"s", "u", "b">>

\* language_by_extension
language_by_extension ==
    (<<".", "p", "y", "w">> :> "Python") @@
    (<<".", "p", "y">> :> "Python") @@
    (<<".", "g", "o">> :> "Go") @@
    (<<".", "n", "i", "m">> :> "Nimrod") @@
    (<<".", "j", "s">> :> "Javascript") @@
    (<<".", "a", "s">> :> "ActionScript") @@
    (<<".", "j", "a", "v", "a">> :> "Java")

\* Project.EMPTY, SINGLE_FILE, MULTIPLE_FILES, MODULE
EMPTY == "empty"
SINGLE_FILE == "single file"
MULTIPLE_FILES == "multiple files"
MODULE_ == "module"

\* pathlib's PurePath.suffix of a bare name
Suffix(name) ==
    LET dots == {i \in 1..Len(name) : name[i] = "."}
    IN  IF dots = {} THEN << >>
        ELSE LET i == Max(dots)
             IN  IF 1 < i /\ i < Len(name) THEN SubSeq(name, i, Len(name))
                 ELSE << >>

(***************************************************************************)
(* Ignore patterns                                                         *)
(***************************************************************************)
\* Files._convert_glob_to_regex: four successive str.replace calls
convert_glob_to_regex(glob_pattern) ==
    LET r1 == Replace(glob_pattern, ".", <<"\\", ".">>)
        r2 == Replace(r1, "*", <<".", "*">>)
        r3 == Replace(r2, "+", <<"\\", "+">>)
        r4 == Replace(r3, "/", << >>)
    IN  r4

RECURSIVE re_compile(_)
\* re.compile on the regex text the conversion produces: an escaped
\* character is a literal, ".*" is a run of any characters, any other
\* character of the modelled alphabet is a literal.
re_compile(regex) ==
    IF regex = << >> THEN << >>
    ELSE IF Head(regex) = "\\"
         THEN <<[star |-> FALSE, ch |-> regex[2]]>> \o re_compile(SubSeq(regex, 3, Len(regex)))
    ELSE IF Head(regex) = "." /\ Len(regex) >= 2 /\ regex[2] = "*"
         THEN <<[star |-> TRUE, ch |-> "."]>> \o re_compile(SubSeq(regex, 3, Len(regex)))
    ELSE <<[star |-> FALSE, ch |-> Head(regex)]>> \o re_compile(Tail(regex))

RECURSIVE re_match_from(_, _, _, _)
re_match_from(pattern, i, name, j) ==
    IF i > Len(pattern) THEN TRUE
    ELSE IF pattern[i].star
         THEN \E k \in j..(Len(name) + 1) : re_match_from(pattern, i + 1, name, k)
         ELSE /\ j <= Len(name)
              /\ name[j] = pattern[i].ch
              /\ re_match_from(pattern, i + 1, name, j + 1)

\* pattern.match(name): anchored at the start of the name, not at its end
re_match(pattern, name) == re_match_from(pattern, 1, name, 1)

RECURSIVE compile_lines(_)
compile_lines(lines) ==
    IF lines = << >> THEN << >>
    ELSE LET line == Head(lines)
         IN  (IF Len(line) > 0 /\ ~StartsWith(line, <<"#">>)
              THEN <<re_compile(convert_glob_to_regex(line))>>
              ELSE << >>) \o compile_lines(Tail(lines))

\* Files._get_git_ignore_patterns: the patterns the generator will yield,
\* in order; nothing when the project has no .gitignore
get_git_ignore_patterns(disk) ==
    IF disk.gitignore.exists THEN compile_lines(disk.gitignore.lines) ELSE << >>

RECURSIVE consume(_, _)
\* "for pattern in self.ignored_patterns: if pattern.match(name): return"
\* run on a generator: the items iterated over are gone afterwards.
consume(gen, name) ==
    IF gen = << >> THEN [matched |-> FALSE, rest |-> << >>]
    ELSE IF re_match(Head(gen), name) THEN [matched |-> TRUE, rest |-> Tail(gen)]
    ELSE consume(Tail(gen), name)

(***************************************************************************)
(* The tree walk                                                           *)
(***************************************************************************)
Undecodable == -1   \* content of a file that is not valid UTF-8

FileEntry(name, lines) ==
    [name |-> name, is_file |-> TRUE, lines |-> lines, children |-> << >>]

DirEntry(name, children) ==
    [name |-> name, is_file |-> FALSE, lines |-> 0, children |-> children]

RECURSIVE refresh_files(_, _, _)
RECURSIVE refresh_children(_, _, _)
\* Files._refresh_files(path); acc carries self._files and the generator
refresh_files(parent, entry, acc) ==
    LET name == entry.name
        path == Append(parent, name)
    IN  IF StartsWith(name, <<".">>) \/ StartsWith(name, <<"_", "_">>) THEN acc
        ELSE LET c == consume(acc.gen, name)
             IN  IF c.matched THEN [files |-> acc.files, gen |-> c.rest]
                 ELSE IF entry.is_file
                      THEN IF Suffix(name) \in DOMAIN language_by_extension
                           THEN [files |-> Append(acc.files, path), gen |-> c.rest]
                           ELSE [files |-> acc.files, gen |-> c.rest]
                      ELSE refresh_children(path, entry.children,
                                            [files |-> acc.files, gen |-> c.rest])

\* "for f in path.iterdir(): self._refresh_files(f)"
refresh_children(path, children, acc) ==
    IF children = << >> THEN acc
    ELSE refresh_children(path, Tail(children),
                          refresh_files(path, Head(children), acc))

RECURSIVE Lookup(_, _)
\* the entry a path below an entry names
Lookup(entry, rel) ==
    IF rel = << >> THEN entry
    ELSE LET i == CHOOSE k \in 1..Len(entry.children) :
                      entry.children[k].name = Head(rel)
         IN  Lookup(entry.children[i], Tail(rel))

\* the content of a recorded file: its line count, or Undecodable
FileLines(disk, path) ==
    Lookup(disk.tree, SubSeq(path, Len(disk.root) + 1, Len(path))).lines

RECURSIVE size_loop(_, _, _)
\* the loop of Files._get_size_info
size_loop(disk, todo, st) ==
    IF todo = << >> \/ st.raised # "none" THEN st
    ELSE LET file_path == Head(todo)
             file_size == FileLines(disk, file_path)
         IN  IF file_size = Undecodable
             THEN [st EXCEPT !.raised = "UnicodeDecodeError"]
             ELSE size_loop(disk, Tail(todo),
                    [sloc |-> st.sloc + file_size,
                     largest_file_size |->
                         IF file_size > st.largest_file_size
                         THEN file_size ELSE st.largest_file_size,
                     largest_file |->
                         IF file_size > st.largest_file_size
                         THEN file_path ELSE st.largest_file,
                     raised |-> "none"])


\* Files._get_size_info: (sloc, largest_file), or the exception of the
\* first file that does not decode
get_size_info(disk, recorded) ==
    size_loop(disk, recorded,
              [sloc |-> 0, largest_file_size |-> 0, largest_file |-> None,
               raised |-> "none"])

\* _get_structure with the file count tested before the nesting loop
get_structure_count_first(recorded, root) ==
    IF Len(recorded) = 0 THEN EMPTY
    ELSE IF Len(recorded) = 1 THEN SINGLE_FILE
    ELSE IF \E i \in 1..Len(recorded) : Len(recorded[i]) > Len(root) + 1
         THEN MODULE_
    ELSE MULTIPLE_FILES

\* Files._get_structure
get_structure(recorded, root) ==
    IF Len(recorded) = 0 THEN EMPTY
    ELSE IF \E i \in 1..Len(recorded) : Len(recorded[i]) > Len(root) + 1
         THEN MODULE_
    ELSE IF Len(recorded) = 1 THEN SINGLE_FILE
    ELSE MULTIPLE_FILES

\* self.root, as path parts
Root == fs.root

\* the project directory sits at the top or one level down
Roots == {<<N_root>>, <<N_home, N_root>>}

(***************************************************************************)
(* Trees and ignore files the scanner is run on                            *)
(***************************************************************************)
Contents == (0..MaxLines) \cup {Undecodable}

SubListings ==
    {<< >>}
    \cup {<<FileEntry(N_c_py, l)>> : l \in Contents}
    \cup {<<FileEntry(N_t_py, 1), FileEntry(N_c_py, l)>> : l \in Contents}

RootEntries ==
    {FileEntry(N_a_py, l) : l \in Contents}
    \cup {FileEntry(N_b_go, l) : l \in Contents}
    \cup {FileEntry(N_n_txt, 1), FileEntry(N_h_py, 1)}
    \cup {DirEntry(N_sub, c) : c \in SubListings}

\* what iterdir() may list under the root: distinct names, any order
RootListings ==
    {l \in UNION {[1..n -> RootEntries] : n \in 0..MaxEntries} :
        \A i, j \in 1..Len(l) : l[i].name = l[j].name => i = j}

GitignoreFiles ==
    {[exists |-> FALSE, lines |-> << >>],
     [exists |-> TRUE, lines |-> << <<"*", ".", "p", "y">> >>],
     [exists |-> TRUE, lines |-> << <<"#", "x">>, << >>, <<"s", "u", "b", "/">> >>],
     [exists |-> TRUE, lines |-> << <<"b">>, <<"p">> >>],
     [exists |-> TRUE, lines |-> << <<"a", "+">>, <<"c", "*">> >>]}

Disks ==
    {[root |-> r, gitignore |-> g, tree |-> DirEntry(r[Len(r)], l)] :
        r \in Roots, g \in GitignoreFiles, l \in RootListings}

(***************************************************************************)
(* Files                                                                   *)
(***************************************************************************)
\* Files.refresh(): the generator is created, the tree is walked, the
\* structure is classified and the sizes are summed; an exception of the
\* size pass leaves sloc and largest_file as they were.
FilesRefresh ==
    LET walked == refresh_files(SubSeq(Root, 1, Len(Root) - 1), fs.tree,
                                [files |-> << >>,
                                 gen |-> get_git_ignore_patterns(fs)])
        size == get_size_info(fs, walked.files)
    IN  /\ ignored_patterns' = walked.gen
        /\ files' = walked.files
        /\ structure' = get_structure(walked.files, Root)
        /\ IF size.raised = "none"
           THEN /\ sloc' = size.sloc
                /\ largest_file' = size.largest_file
           ELSE UNCHANGED <<sloc, largest_file>>
        /\ files_raised' = size.raised
        /\ files_calls' = 1
        /\ UNCHANGED <<fs, repo_vars, ws_vars>>


(***************************************************************************)
(* GitRepository                                                           *)
(***************************************************************************)
\* origin URLs: the two forms change_origin_type parses, and others that
\* "git remote show" can report just as well
U_https == <<"h", "t", "t", "p", "s", ":", "/", "/", "d", "/", "u", "/", "r", ".", "g", "i", "t">>
U_ssh == <<"g", "i", "t", "@", "d", ":", "u", "/", "r">>
U_ssh_git == <<"g", "i", "t", "@", "d", ":", "u", "/", "r", ".", "g", "i", "t">>
U_https_bare == <<"h", "t", "t", "p", "s", ":", "/", "/", "d", "/", "u", "/", "r">>
U_path == <<"/", "s", "/", "r">>

S_https == <<"h", "t", "t", "p", "s">>
S_ssh == <<"s", "s", "h">>
S_ftp == <<"f", "t", "p">>

\* GitRepository._get_origin: "git remote show -n origin" prints the name
\* "origin" as the fetch URL when no such remote is configured
get_origin(g) ==
    LET shown == IF g.url = None THEN <<"o", "r", "i", "g", "i", "n">> ELSE g.url
    IN  IF shown = <<"o", "r", "i", "g", "i", "n">> THEN None ELSE shown

\* regit('status -b --porcelain', r'\[ahead (\d+)\]\n', int) or 0.  The branch
\* line ends in "[ahead A]", "[behind B]" or "[ahead A, behind B]"; the
\* pattern wants "]" right after the digits.
regit_ahead(g) == IF g.ahead > 0 /\ g.behind = 0 THEN g.ahead ELSE 0

\* regit('status -b --porcelain', r'\[behind (\d+)\]\n', int) or 0
regit_behind(g) == IF g.behind > 0 /\ g.ahead = 0 THEN g.behind ELSE 0

RefreshCmds ==
    <<"remote show -n origin", "status --porcelain", "log",
      "status -b --porcelain", "status -b --porcelain", "shortlog -s">>

\* GitRepository.refresh() on object r and repository g.  Command number k
\* of the six fails (0: none does); the assignments before it have run.
refresh(r, g, k) ==
    LET done(i) == k = 0 \/ i < k
        ahead == IF done(4) THEN regit_ahead(g) ELSE r.ahead
        behind == IF done(5) THEN regit_behind(g) ELSE r.behind
    IN  [repo |->
            [origin |-> IF done(1) THEN get_origin(g) ELSE r.origin,
             is_dirty |-> IF done(2) THEN g.dirty ELSE r.is_dirty,
             age |-> IF done(3) THEN g.age ELSE r.age,
             ahead |-> ahead,
             behind |-> behind,
             synced |-> IF done(5) THEN (behind = 0 /\ ahead = 0) ELSE r.synced,
             commit_count |-> IF done(6) THEN g.commits ELSE r.commit_count],
         cmds |-> IF k = 0 THEN RefreshCmds ELSE SubSeq(RefreshCmds, 1, k),
         raised |-> IF k = 0 THEN "none" ELSE "CalledProcessError"]

\* the (domain end, user end) splits 'https://(.+?)/(.+?)/(.+?).git$' allows
https_splits(s) ==
    {ij \in (1..Len(s)) \X (1..Len(s)) :
        /\ s[ij[1]] = "/" /\ s[ij[2]] = "/"
        /\ ij[1] >= 10 /\ ij[2] >= ij[1] + 2
        /\ Len(s) - 4 >= ij[2] + 1
        /\ SubSeq(s, Len(s) - 2, Len(s)) = <<"g", "i", "t">>}

\* the (domain end, user end) splits 'git@(.+?):(.+?)/(.+?)$' allows
ssh_splits(s) ==
    {ij \in (1..Len(s)) \X (1..Len(s)) :
        /\ s[ij[1]] = ":" /\ s[ij[2]] = "/"
        /\ ij[1] >= 6 /\ ij[2] >= ij[1] + 2
        /\ Len(s) >= ij[2] + 1}

\* the non-greedy groups take the leftmost split: the shortest domain,
\* then the shortest user
lazy_split(splits) ==
    LET i == Min({ij[1] : ij \in splits})
        j == Min({ij[2] : ij \in {x \in splits : x[1] = i}})
    IN  <<i, j>>

\* re.match(extract_pattern, self.origin).groups(), or the exception
extract(origin) ==
    IF StartsWith(origin, <<"h", "t", "t", "p", "s", ":", "/", "/">>)
    THEN IF https_splits(origin) = {}
         THEN [raised |-> "AttributeError"]
         ELSE LET ij == lazy_split(https_splits(origin))
              IN  [raised |-> "none",
                   domain |-> SubSeq(origin, 9, ij[1] - 1),
                   user |-> SubSeq(origin, ij[1] + 1, ij[2] - 1),
                   repo |-> SubSeq(origin, ij[2] + 1, Len(origin) - 4)]
    ELSE IF StartsWith(origin, <<"g", "i", "t", "@">>)
    THEN IF ssh_splits(origin) = {}
         THEN [raised |-> "AttributeError"]
         ELSE LET ij == lazy_split(ssh_splits(origin))
              IN  [raised |-> "none",
                   domain |-> SubSeq(origin, 5, ij[1] - 1),
                   user |-> SubSeq(origin, ij[1] + 1, ij[2] - 1),
                   repo |-> SubSeq(origin, ij[2] + 1, Len(origin))]
    ELSE [raised |-> "UnboundLocalError"]

\* the formats with ".git" appended in the SSH form as well
set_pattern_format_git_suffix(new_type, domain, user, name) ==
    IF new_type = S_https
    THEN <<"h", "t", "t", "p", "s", ":", "/", "/">> \o domain \o <<"/">> \o user
         \o <<"/">> \o name \o <<".", "g", "i", "t">>
    ELSE <<"g", "i", "t", "@">> \o domain \o <<":">> \o user \o <<"/">> \o name
         \o <<".", "g", "i", "t">>

\* set_pattern.format(domain=domain, user=user, repo=repo)
set_pattern_format(new_type, domain, user, name) ==
    IF new_type = S_https
    THEN <<"h", "t", "t", "p", "s", ":", "/", "/">> \o domain \o <<"/">> \o user
         \o <<"/">> \o name \o <<".", "g", "i", "t">>
    ELSE <<"g", "i", "t", "@">> \o domain \o <<":">> \o user \o <<"/">> \o name

\* "git pull": the remote's commits are integrated into the working tree;
\* when there were any, the newest commit is one of them
pull(g) ==
    [g EXCEPT !.behind = 0, !.commits = g.commits + g.behind,
              !.age = IF g.behind > 0 THEN 0 ELSE g.age]

\* "git push": the local commits are published
push(g) == [g EXCEPT !.ahead = 0]

\* "git fetch": the remote-tracking branch now shows nb unmerged commits
fetch(g, nb) == [g EXCEPT !.behind = nb]


Call(op, arg, cmds, raised) ==
    [op |-> op, arg |-> arg, cmds |-> cmds, raised |-> raised]

\* the repositories a GitRepository may be constructed on
Gits(urls) ==
    {g \in [url : urls, dirty : BOOLEAN, age : 0..MaxAge,
            commits : 1..MaxCommits, ahead : 0..MaxDiv, behind : 0..MaxDiv] :
        g.url = None => (g.ahead = 0 /\ g.behind = 0)}

\* GitRepository.__init__ that returned: its refresh() ran to the end
InitRepo(urls) ==
    /\ git \in Gits(urls)
    /\ repo = refresh([origin |-> None, is_dirty |-> FALSE, age |-> 0, ahead |-> 0,
                       behind |-> 0, synced |-> TRUE, commit_count |-> 0],
                      git, 0).repo
    /\ call = Call("__init__", None, RefreshCmds, "none")

\* GitRepository.refresh()
Refresh ==
    \E k \in 0..6 :
        LET res == refresh(repo, git, k)
        IN  /\ repo' = res.repo
            /\ call' = Call("refresh", None, res.cmds, res.raised)
            /\ UNCHANGED <<git, files_vars, ws_vars>>

\* GitRepository.refresh_remote(); command 1 is "remote", 2 is "fetch",
\* 3..8 are those of refresh()
RefreshRemote ==
    \E k \in 0..8, nb \in 0..MaxDiv :
      /\ UNCHANGED <<files_vars, ws_vars>>
      /\ IF k = 1
        THEN /\ call' = Call("refresh_remote", None, <<"remote">>, "CalledProcessError")
             /\ UNCHANGED <<repo, git>>
        ELSE IF git.url = None
        THEN /\ call' = Call("refresh_remote", None, <<"remote">>, "none")
             /\ UNCHANGED <<repo, git>>
        ELSE IF k = 2
        THEN /\ call' = Call("refresh_remote", None, <<"remote", "fetch">>,
                             "CalledProcessError")
             /\ UNCHANGED <<repo, git>>
        ELSE LET res == refresh(repo, fetch(git, nb), IF k = 0 THEN 0 ELSE k - 2)
             IN  /\ git' = fetch(git, nb)
                 /\ repo' = res.repo
                 /\ call' = Call("refresh_remote", None,
                                 <<"remote", "fetch">> \o res.cmds, res.raised)

\* sync() publishing before it integrates: "push", then "pull"
sync_push_first(r, g, k) ==
    IF r.origin = None
    THEN [repo |-> r, git |-> g, cmds |-> << >>, raised |-> "none"]
    ELSE IF k = 1
    THEN [repo |-> r, git |-> g, cmds |-> <<"push">>,
          raised |-> "CalledProcessError"]
    ELSE IF k = 2
    THEN [repo |-> r, git |-> push(g), cmds |-> <<"push", "pull">>,
          raised |-> "CalledProcessError"]
    ELSE LET res == refresh(r, pull(push(g)), IF k = 0 THEN 0 ELSE k - 2)
         IN  [repo |-> res.repo, git |-> pull(push(g)),
              cmds |-> <<"push", "pull">> \o res.cmds, raised |-> res.raised]

\* GitRepository.sync() on object r and repository g; command 1 is "pull",
\* 2 is "push", 3..8 are those of refresh(); command number k fails
sync(r, g, k) ==
    IF r.origin = None
    THEN [repo |-> r, git |-> g, cmds |-> << >>, raised |-> "none"]
    ELSE IF k = 1
    THEN [repo |-> r, git |-> g, cmds |-> <<"pull">>,
          raised |-> "CalledProcessError"]
    ELSE IF k = 2
    THEN [repo |-> r, git |-> pull(g), cmds |-> <<"pull", "push">>,
          raised |-> "CalledProcessError"]
    ELSE LET res == refresh(r, push(pull(g)), IF k = 0 THEN 0 ELSE k - 2)
         IN  [repo |-> res.repo, git |-> push(pull(g)),
              cmds |-> <<"pull", "push">> \o res.cmds, raised |-> res.raised]

Sync ==
    \E k \in 0..8 :
        /\ git.commits + git.behind <= MaxCommits
        /\ repo' = sync(repo, git, k).repo
        /\ git' = sync(repo, git, k).git
        /\ call' = Call("sync", None, sync(repo, git, k).cmds, sync(repo, git, k).raised)
        /\ UNCHANGED <<files_vars, ws_vars>>

\* GitRepository.change_origin_type(new_type); ok tells whether
\* "git remote set-url" succeeds
change_origin_type(new_type, ok) ==
    IF repo.origin = None
    THEN /\ call' = Call("change_origin_type", new_type, << >>, "none")
         /\ UNCHANGED <<repo, git>>
    ELSE LET x == extract(repo.origin)
         IN  IF x.raised # "none"
             THEN /\ call' = Call("change_origin_type", new_type, << >>, x.raised)
                  /\ UNCHANGED <<repo, git>>
             ELSE IF new_type \notin {S_https, S_ssh}
             THEN /\ call' = Call("change_origin_type", new_type, << >>, "ValueError")
                  /\ UNCHANGED <<repo, git>>
             ELSE LET url == set_pattern_format(new_type, x.domain, x.user, x.repo)
                  IN  /\ repo' = [repo EXCEPT !.origin = url]
                      /\ git' = IF ok THEN [git EXCEPT !.url = url] ELSE git
                      /\ call' = Call("change_origin_type", new_type,
                                      <<"remote set-url origin">>,
                                      IF ok THEN "none" ELSE "CalledProcessError")

ChangeOriginType ==
    \E new_type \in {S_https, S_ssh, S_ftp}, ok \in BOOLEAN :
        /\ change_origin_type(new_type, ok)
        /\ UNCHANGED <<files_vars, ws_vars>>

(***************************************************************************)
(* Workspace                                                               *)
(***************************************************************************)
MaxRoots == 2      \* root paths given to Workspace(...)
MaxChildren == 2   \* entries listed under one root

W_News == <<"N", "s">>
W_news == <<"n", "s">>
W_app == <<"A", "p">>

\* str.lower() on the letters of the modelled names
lower_char(c) == IF c = "N" THEN "n" ELSE IF c = "A" THEN "a" ELSE c

lower(name) == [i \in 1..Len(name) |-> lower_char(name[i])]

\* the i-th root path: "r", "rr", ...
RootPath(i) == <<[j \in 1..i |-> "r"]>>

\* what iterdir() may list under a root: distinct names, each with or
\* without a ".git" subdirectory
Children ==
    {l \in UNION {[1..n -> [name : {W_News, W_news, W_app}, has_git : BOOLEAN]] :
                     n \in 0..MaxChildren} :
        \A i, j \in 1..Len(l) : l[i].name = l[j].name => i = j}

WsDisks == UNION {[1..n -> Children] : n \in 1..MaxRoots}

RECURSIVE candidates(_, _)
\* the directories d with (d / '.git').is_dir(), in the order the two
\* loops of Workspace.__init__ meet them, from root number i on
candidates(disk, i) ==
    IF i > Len(disk) THEN << >>
    ELSE [k \in 1..Len(SelectSeq(disk[i], LAMBDA c : c.has_git)) |->
             Append(RootPath(i), SelectSeq(disk[i], LAMBDA c : c.has_git)[k].name)]
         \o candidates(disk, i + 1)

RECURSIVE store(_, _)
\* self.dirs[project.name.lower()] = project, for each project in turn
store(acc, paths) ==
    IF paths = << >> THEN acc
    ELSE store((lower(Head(paths)[Len(Head(paths))]) :> Head(paths)) @@ acc,
               Tail(paths))

\* Workspace.__init__(*paths); bad is the directory whose Project(d)
\* throws (its git commands or its files fail), None when none does
WorkspaceInit ==
    \E bad \in {None} \cup {candidates(ws_disk, 1)[i] :
                               i \in 1..Len(candidates(ws_disk, 1))} :
        /\ ws_state = "unbuilt"
        /\ IF bad = None
           THEN /\ dirs' = store(<< >>, candidates(ws_disk, 1))
                /\ ws_state' = "built"
           ELSE /\ dirs' = << >>
                /\ ws_state' = "raised"
        /\ UNCHANGED <<ws_disk, files_vars, repo_vars>>

\* Workspace.__getitem__(name)
getitem(name) == dirs[lower(name)]

\* Workspace.__len__()
len == Cardinality(DOMAIN dirs)

(***************************************************************************)
(* Specifications                                                          *)
(***************************************************************************)
\* a Files object constructed while the project directory was still empty
FilesIdle ==
    /\ ignored_patterns = << >>
    /\ files = << >>
    /\ structure = EMPTY
    /\ sloc = 0
    /\ largest_file = None
    /\ files_raised = "none"
    /\ files_calls = 0

WsIdle ==
    /\ dirs = << >>
    /\ ws_state = "unbuilt"

InitFiles ==
    /\ fs \in Disks
    /\ FilesIdle
    /\ git = [url |-> None, dirty |-> FALSE, age |-> 0, commits |-> 1,
              ahead |-> 0, behind |-> 0]
    /\ repo = refresh([origin |-> None], git, 0).repo
    /\ call = Call("__init__", None, RefreshCmds, "none")
    /\ ws_disk = << << >> >>
    /\ WsIdle

NextFiles == FilesRefresh

SpecFiles == InitFiles /\ [][NextFiles]_vars

AllUrls == {None, U_https, U_ssh, U_ssh_git, U_https_bare, U_path}

InitRepoSpec ==
    /\ InitRepo({None, U_https})
    /\ fs = [root |-> <<N_root>>, gitignore |-> [exists |-> FALSE, lines |-> << >>],
             tree |-> DirEntry(N_root, << >>)]
    /\ FilesIdle
    /\ ws_disk = << << >> >>
    /\ WsIdle

NextRepo ==
    \/ Refresh
    \/ RefreshRemote
    \/ Sync
    \/ ChangeOriginType

SpecRepo == InitRepoSpec /\ [][NextRepo]_vars

\* change_origin_type on every kind of origin URL, refresh() in between
InitOrigin ==
    /\ InitRepo(AllUrls)
    /\ fs = [root |-> <<N_root>>, gitignore |-> [exists |-> FALSE, lines |-> << >>],
             tree |-> DirEntry(N_root, << >>)]
    /\ FilesIdle
    /\ ws_disk = << << >> >>
    /\ WsIdle

NextOrigin ==
    \/ ChangeOriginType
    \/ Refresh

SpecOrigin == InitOrigin /\ [][NextOrigin]_vars

InitWorkspace ==
    /\ ws_disk \in WsDisks
    /\ WsIdle
    /\ fs = [root |-> <<N_root>>, gitignore |-> [exists |-> FALSE, lines |-> << >>],
             tree |-> DirEntry(N_root, << >>)]
    /\ FilesIdle
    /\ git = [url |-> None, dirty |-> FALSE, age |-> 0, commits |-> 1,
              ahead |-> 0, behind |-> 0]
    /\ repo = refresh([origin |-> None], git, 0).repo
    /\ call = Call("__init__", None, RefreshCmds, "none")

NextWorkspace == WorkspaceInit

SpecWorkspace == InitWorkspace /\ [][NextWorkspace]_vars


(***************************************************************************)
(* Properties of Files                                                     *)
(***************************************************************************)
\* the ignore rules of the project, all of them, compiled
CompiledRules == compile_lines(IF fs.gitignore.exists THEN fs.gitignore.lines ELSE << >>)

IgnoredName(name) ==
    \E p \in 1..Len(CompiledRules) : re_match(CompiledRules[p], name)

\* C1: after Files.refresh(), no recorded file has a bare name that a
\* compiled ignore pattern matches, and none lies beneath a directory under
\* the root whose bare name a compiled ignore pattern matches: the rules
\* are applied to every entry the traversal visits.
C1_IgnoredNeverRecorded ==
    files_calls = 1 =>
        \A i \in 1..Len(files) : \A j \in (Len(Root) + 1)..Len(files[i]) :
            ~IgnoredName(files[i][j])

LineCounts == [i \in 1..Len(files) |-> FileLines(fs, files[i])]

ReadableCounts == SelectSeq(LineCounts, LAMBDA n : n # Undecodable)

\* C3: when a recorded file does not decode as UTF-8, refresh() still
\* completes and sloc is the sum of the line counts of the recorded files
\* that do decode.
C3_UndecodableSkipped ==
    (files_calls = 1 /\ \E i \in 1..Len(files) : LineCounts[i] = Undecodable) =>
        /\ files_raised = "none"
        /\ sloc = SeqSum(ReadableCounts)

Nested(path) == Len(path) > Len(Root) + 1

\* C4: structure is one of the four values: 'empty' for no recorded file;
\* 'module' as soon as one recorded file sits inside a subdirectory of the
\* root, whatever the other files; otherwise 'single file' for exactly one
\* file and 'multiple files' for two or more.
C4_Structure ==
    /\ structure \in {EMPTY, SINGLE_FILE, MULTIPLE_FILES, MODULE_}
    /\ Len(files) = 0 => structure = EMPTY
    /\ (\E i \in 1..Len(files) : Nested(files[i])) => structure = MODULE_
    /\ (Len(files) = 1 /\ ~Nested(files[1])) => structure = SINGLE_FILE
    /\ (Len(files) >= 2 /\ \A i \in 1..Len(files) : ~Nested(files[i])) =>
           structure = MULTIPLE_FILES

\* a refreshed project with a single recorded file, inside a subdirectory
C4_Witness ==
    /\ files_calls = 1
    /\ Len(files) = 1
    /\ Nested(files[1])
    /\ structure = MODULE_

\* the first recorded file whose line count is the largest one
FirstLargest ==
    files[Min({i \in 1..Len(files) :
                 \A j \in 1..Len(files) : LineCounts[j] <= LineCounts[i]})]

\* C10: after a Files.refresh() that returned, sloc is the sum of the line
\* counts of the recorded files; for a non-empty file set largest_file is
\* the first file, in insertion order, with the largest line count; for an
\* empty one sloc is 0 and largest_file is absent.
C10_SizeInfo ==
    (files_calls = 1 /\ files_raised = "none") =>
        /\ sloc = SeqSum(LineCounts)
        /\ Len(files) > 0 => largest_file = FirstLargest
        /\ Len(files) = 0 => (sloc = 0 /\ largest_file = None)


(***************************************************************************)
(* Properties of GitRepository                                             *)
(***************************************************************************)
RepoFields ==
    {"origin", "is_dirty", "age", "ahead", "behind", "synced", "commit_count"}

\* the call ran refresh(), on its own or at the end of sync() or
\* refresh_remote()
RanRefresh(c) == \E i \in 1..Len(c.cmds) : c.cmds[i] = RefreshCmds[1]

\* C2: a refresh() in which a git command fails reaches the caller as a
\* failure and never leaves some fields with the values of this refresh
\* and others with the values of the previous one: either no field has
\* changed or every field has the value a complete refresh gives it.
C2_RefreshAtomic ==
    [][(RanRefresh(call') /\ call'.raised # "none") =>
          \/ \A f \in RepoFields : repo'[f] = repo[f]
          \/ \A f \in RepoFields : repo'[f] = refresh(repo, git', 0).repo[f]]_vars

\* C5: between operations, whether they completed or failed, synced is
\* true exactly when ahead = 0 and behind = 0.
C5_SyncedIff == repo.synced <=> (repo.ahead = 0 /\ repo.behind = 0)

IsPrefix(s, t) == Len(s) <= Len(t) /\ SubSeq(t, 1, Len(s)) = s

SyncCmds == <<"pull", "push">> \o RefreshCmds

\* C6: sync() without an origin issues no command and changes nothing;
\* with one it issues pull, push and the commands of a full refresh, in
\* that order, up to the first that fails.  When push fails after pull
\* succeeded, the pull has been applied to the working tree, no field was
\* refreshed and the failure reaches the caller.
C6_SyncOrder ==
    [][call'.op = "sync" =>
          IF repo.origin = None
          THEN /\ call'.cmds = << >>
               /\ call'.raised = "none"
               /\ repo' = repo
               /\ git' = git
          ELSE /\ call'.cmds # << >>
               /\ IsPrefix(call'.cmds, SyncCmds)
               /\ Len(call'.cmds) < Len(SyncCmds) => call'.raised # "none"
               /\ call'.raised = "none" =>
                      /\ call'.cmds = SyncCmds
                      /\ git'.ahead = 0 /\ git'.behind = 0
                      /\ repo'.ahead = 0 /\ repo'.behind = 0 /\ repo'.synced
                      /\ repo'.commit_count = git.commits + git.behind
               /\ call'.cmds = <<"pull">> => (git' = git /\ repo' = repo)
               /\ call'.cmds = <<"pull", "push">> =>
                      /\ call'.raised = "CalledProcessError"
                      /\ git'.behind = 0
                      /\ git'.commits = git.commits + git.behind
                      /\ git'.ahead = git.ahead
                      /\ repo' = repo]_vars

\* push failed after a pull that brought commits in: the object still
\* shows them as missing
C6_Witness ==
    /\ call.op = "sync"
    /\ call.cmds = <<"pull", "push">>
    /\ call.raised = "CalledProcessError"
    /\ repo.behind > 0
    /\ git.behind = 0

\* C7: change_origin_type with an origin configured and a scheme other
\* than 'https' and 'ssh' raises the input error (ValueError) before any
\* external mutation: no "remote set-url" is issued and the origin in
\* memory, like the one configured, is unchanged.
C7_BadSchemeRejected ==
    [][(/\ call'.op = "change_origin_type"
        /\ call'.arg \notin {S_https, S_ssh}
        /\ repo.origin # None) =>
          /\ call'.raised = "ValueError"
          /\ call'.cmds = << >>
          /\ repo' = repo
          /\ git' = git]_vars

\* C8: once change_origin_type(t) has completed, calling it again with the
\* same t parses the rewritten URL and yields the same origin in memory and
\* the same URL configured for the remote.
C8_Idempotent ==
    [][(/\ call.op = "change_origin_type"
        /\ call.raised = "none"
        /\ call.cmds # << >>
        /\ call'.op = "change_origin_type"
        /\ call'.arg = call.arg) =>
          /\ call'.raised \in {"none", "CalledProcessError"}
          /\ call'.cmds = <<"remote set-url origin">>
          /\ repo'.origin = repo.origin
          /\ git'.url = git.url]_vars

\* an SSH origin with a ".git" suffix rewritten to HTTPS, configured and
\* in memory
C8_Witness ==
    /\ call.op = "change_origin_type"
    /\ call.arg = S_https
    /\ call.raised = "none"
    /\ call.cmds = <<"remote set-url origin">>
    /\ repo.origin = U_https \o <<".", "g", "i", "t">>
    /\ git.url = repo.origin


(***************************************************************************)
(* Properties of Workspace                                                 *)
(***************************************************************************)
\* the immediate children of the roots that contain a ".git" directory
GitDirs ==
    UNION {{Append(RootPath(i), ws_disk[i][k].name) :
               k \in {n \in 1..Len(ws_disk[i]) : ws_disk[i][n].has_git}} :
           i \in 1..Len(ws_disk)}

\* C9: once Workspace(...) is constructed, the number of Projects is the
\* number of immediate children of the roots that contain a ".git"
\* directory, and each of them is the path of the Project found under its
\* lower-cased name.
C9_EveryGitDirIsProject ==
    ws_state = "built" =>
        /\ len = Cardinality(GitDirs)
        /\ \A d \in GitDirs :
              /\ lower(d[Len(d)]) \in DOMAIN dirs
              /\ getitem(d[Len(d)]) = d

====
